---- MODULE Spec2Model ----
(***************************************************************************)
(* Model of the audio playlist player (App.vue script block,               *)
(* src/unnamed/part_000 lines 1-120, and the handlers its template wires). *)
(*                                                                         *)
(* Times are kept in hundredths of a second and the volume in hundredths   *)
(* (volume.value = percent / 100), so that the divisions by 100 of the     *)
(* source are exact on integers.                                           *)
(***************************************************************************)
EXTENDS Integers, Sequences, FiniteSets, TLC

\* ------------------------------------------------------------------ bounds
MaxTracks == 3
MaxDurSec == 1
MaxPlays == 2
MaxPending == 2
MaxStem == 5
MaxTime == 3

VARIABLES
  nTracks,       \* tracks.value.length (fixed once the bundle is built)
  currentIndex,  \* currentIndex ref
  boundSrc,      \* src attribute of the <audio> element after the last render
  pending,       \* the microtask queue, oldest first: the queued render ("flush") and
                 \* the setTrack calls suspended at `await nextTick()` ("resume")
  playing,       \* playing ref of useMediaControls
  currentTime,   \* currentTime ref, 1/100 s
  duration,      \* duration ref, 1/100 s, as a Num; 0 at first, NaN while a source loads
  volume,        \* volume ref, in hundredths
  muted,         \* muted ref
  playCount,     \* number of audio.play() requests issued so far
  lastPlay,      \* the last play request: the source it went to and the call that issued it
  lastWritten,   \* the value of the most recent write to currentIndex
  lastResult,    \* how the most recently completed setTrack promise settled
  lastOp,        \* the handler or step that ran last
  lastArg,       \* its argument, as a Num
  wasMuted,      \* muted before the last volume-control step
  buffered,      \* buffered ref: the buffered ranges, pairs <<start, end>>
  rendered,      \* the widths last rendered for the progress and buffer bars
  assetPath,     \* a key of import.meta.glob: the path of one bundled file
  track          \* the Track derived from it

vars == <<nTracks, currentIndex, boundSrc, pending, playing, currentTime,
          duration, volume, muted, playCount, lastPlay, lastWritten, lastResult,
          lastOp, lastArg, wasMuted, buffered, rendered, assetPath, track>>

\* what the player's handlers never write
offstage == <<buffered, rendered, assetPath, track>>

\* ------------------------------------------------------------ the catalog
NoSrc == ""
\* A JavaScript number that may be NaN: <<v>> is the number v, <<>> is NaN
NaN == <<>>
Num(v) == <<v>>
Val(x) == x[1]
\* !x for a number x: true of 0 and of NaN
Falsy(x) == IF x = NaN THEN TRUE ELSE Val(x) = 0
Undefined == [undefined |-> TRUE]

\* tracks (as far as the player reads it): one Track per bundled file, by index
Track(k) == [src |-> "/assets/audio/" \o ToString(k) \o ".mp3", position |-> k]
tracks == [k \in 0..(nTracks - 1) |-> Track(k)]

\* tracks.value[i]  (undefined outside 0..length-1)
TrackAt(i) == IF i \in DOMAIN tracks THEN tracks[i] ELSE Undefined

\* currentTrack = tracks.value[currentIndex.value] ?? tracks.value[0]
CurrentTrackOf(i) == IF TrackAt(i) # Undefined THEN TrackAt(i) ELSE TrackAt(0)
currentTrack == CurrentTrackOf(currentIndex)

\* src: computed(() => currentTrack.value?.src ?? '')
SrcOfIndex(i) == IF CurrentTrackOf(i) # Undefined THEN CurrentTrackOf(i).src ELSE NoSrc
src == SrcOfIndex(currentIndex)

\* JavaScript's % : the remainder takes the sign of the dividend
JsRem(a, n) == IF a >= 0 THEN a % n ELSE -((-a) % n)

\* setTrack: const normalized = (index + tracks.value.length) % tracks.value.length
NormalizeNoWrap(index, n) == index
Normalize(index, n) == JsRem(index + n, n)

\* Math.min(100, Math.max(0, Number(target.value)))
ClampPercent(v) ==
  IF v = NaN THEN NaN
  ELSE IF Val(v) < 0 THEN Num(0) ELSE IF Val(v) > 100 THEN Num(100) ELSE v

IndexInputs == (-(MaxTracks + 2))..(2 * MaxTracks)
SeekInputs == {Num(v) : v \in {-10, 0, 50, 100, 150}} \cup {NaN}
Durations == {Num(100 * d) : d \in 1..MaxDurSec}

NoPlay == [src |-> NoSrc, index |-> 0]

\* the microtask queue is empty: the browser dispatches the next event
Idle == pending = <<>>

FlushJob == [kind |-> "flush", index |-> 0, autoplay |-> FALSE]
ResumeJob(i, a) == [kind |-> "resume", index |-> i, autoplay |-> a]

\* a render is queued and has not run yet (Vue's currentFlushPromise is set)
dirty == \E k \in DOMAIN pending : pending[k].kind = "flush"

\* the setTrack calls suspended at their await
Suspended == {k \in DOMAIN pending : pending[k].kind = "resume"}

\* audioRef.value is the mounted <audio> element (template ref, never unmounted)
AudioRefMounted == TRUE

TypeOK ==
  /\ nTracks \in 0..MaxTracks
  /\ currentIndex \in Int
  /\ playing \in BOOLEAN /\ muted \in BOOLEAN
  /\ Cardinality(Suspended) <= MaxPending
  /\ playCount \in 0..MaxPlays
  /\ volume \in 0..100

\* ------------------------------------------------------------------- Init
\* refs after setup and the first render: currentIndex = ref(0); the element is
\* bound to tracks[0] (or to '' on an empty catalog); useMediaControls' defaults
InitPlayer ==
  /\ currentIndex = 0
  /\ boundSrc = SrcOfIndex(0)
  /\ pending = <<>>
  /\ playing = FALSE
  /\ currentTime = 0
  /\ duration = Num(0)
  /\ volume = 100
  /\ muted = FALSE
  /\ playCount = 0
  /\ lastPlay = NoPlay
  /\ lastWritten = 0
  /\ lastResult = "none"
  /\ lastOp = "mount"
  /\ lastArg = Num(0)
  /\ wasMuted = FALSE

NoTrack == [built |-> FALSE]
NotRendered == [done |-> FALSE]

InitOffstage ==
  /\ buffered = <<>>
  /\ rendered = NotRendered
  /\ assetPath = <<>>
  /\ track = NoTrack

Init ==
  /\ nTracks \in 0..MaxTracks
  /\ InitPlayer
  /\ InitOffstage

\* --------------------------------------------------------------- setTrack
\* lines 99-100: `currentIndex.value = normalized; await nextTick()`.  A write that
\* changes the ref queues the render unless one is queued already; the call then
\* waits for the queued render, or for one microtask tick when none is queued.
AwaitWithoutNextTick(queue, changed, call) ==
  IF changed /\ ~dirty THEN queue \o <<call, FlushJob>> ELSE Append(queue, call)
AwaitNextTick(queue, changed, call) ==
  IF changed /\ ~dirty THEN queue \o <<FlushJob, call>> ELSE Append(queue, call)

\* lines 94-100: the synchronous part of setTrack, up to `await nextTick()`
SetTrackSync(index, autoplay) ==
  IF nTracks = 0
    THEN UNCHANGED <<currentIndex, pending, lastWritten>>
    ELSE LET normalized == Normalize(index, nTracks) IN
         /\ currentIndex' = normalized
         /\ lastWritten' = normalized
         /\ pending' = AwaitNextTick(pending, normalized # currentIndex,
                                     ResumeJob(normalized, autoplay))

SetTrackCall(index, autoplay, op) ==
  /\ playCount + Cardinality(Suspended) < MaxPlays
  /\ Cardinality(Suspended) < MaxPending
  /\ SetTrackSync(index, autoplay)
  /\ lastOp' = op
  /\ lastArg' = Num(index)
  /\ UNCHANGED <<nTracks, boundSrc, playing, currentTime, duration, volume, muted,
                 playCount, lastPlay, lastResult, wasMuted>>
  /\ UNCHANGED offstage

\* the queued render: <audio :src="currentTrack?.src"> and the src option of
\* useMediaControls follow currentIndex; a new source resets the media clock
Flush ==
  /\ pending # <<>> /\ Head(pending).kind = "flush"
  /\ pending' = Tail(pending)
  /\ boundSrc' = src
  /\ IF src # boundSrc
       THEN currentTime' = 0 /\ duration' = NaN
       ELSE UNCHANGED <<currentTime, duration>>
  /\ lastOp' = "render"
  /\ lastArg' = Num(0)
  /\ UNCHANGED <<nTracks, currentIndex, playing, volume, muted, playCount,
                 lastPlay, lastWritten, lastResult, wasMuted>>
  /\ UNCHANGED offstage

\* lines 102-105: the continuation of a call.  audio.play() goes to the source the
\* element is bound to; the platform resolves or rejects it, and nothing in
\* setTrack catches the rejection, so the call's promise rejects with it
ResumeRestoringIndex(call) ==
  /\ currentIndex' = call.index
  /\ IF call.autoplay /\ AudioRefMounted
       THEN /\ playCount' = playCount + 1
            /\ lastPlay' = [src |-> boundSrc, index |-> call.index]
            /\ playing' = TRUE /\ lastResult' = "fulfilled" /\ lastOp' = "playResolved"
       ELSE /\ lastOp' = "noPlay"
            /\ lastResult' = "fulfilled"
            /\ UNCHANGED <<playCount, lastPlay, playing>>
Resume(call) ==
  /\ currentIndex' = currentIndex
  /\ IF call.autoplay /\ AudioRefMounted
       THEN /\ playCount' = playCount + 1
            /\ lastPlay' = [src |-> boundSrc, index |-> call.index]
            /\ \E ok \in BOOLEAN :
                 IF ok
                   THEN playing' = TRUE /\ lastResult' = "fulfilled"
                        /\ lastOp' = "playResolved"
                   ELSE playing' = playing /\ lastResult' = "rejected"
                        /\ lastOp' = "playRejected"
       ELSE /\ lastOp' = "noPlay"
            /\ lastResult' = "fulfilled"
            /\ UNCHANGED <<playCount, lastPlay, playing>>

SetTrackResume ==
  /\ pending # <<>> /\ Head(pending).kind = "resume"
  /\ pending' = Tail(pending)
  /\ Resume(Head(pending))
  /\ lastArg' = Num(0)
  /\ UNCHANGED <<nTracks, boundSrc, currentTime, duration, volume, muted,
                 lastWritten, wasMuted>>
  /\ UNCHANGED offstage

CallOps == {"setTrack", "playNext", "playPrev", "ended"}
ResumeOps == {"playResolved", "playRejected", "noPlay"}

\* ----------------------------------------------------- the event handlers
\* @click="setTrack(index)" and any other caller of setTrack
SetTrack(index, autoplay) == Idle /\ SetTrackCall(index, autoplay, "setTrack")

\* line 117 / 118
PlayNext == Idle /\ SetTrackCall(currentIndex + 1, TRUE, "playNext")
PlayPrev == Idle /\ SetTrackCall(currentIndex - 1, TRUE, "playPrev")

\* <audio @ended="playNext">: playback reached the end of the bound media
Ended ==
  /\ Idle
  /\ boundSrc # NoSrc /\ playing /\ ~Falsy(duration) /\ currentTime = Val(duration)
  /\ SetTrackCall(currentIndex + 1, TRUE, "ended")

\* lines 107-111
TogglePlayUnguarded == playing' = ~playing
TogglePlayBody == IF nTracks = 0 THEN playing' = playing ELSE playing' = ~playing

TogglePlay ==
  /\ Idle
  /\ TogglePlayBody
  /\ lastOp' = "togglePlay"
  /\ lastArg' = Num(0)
  /\ UNCHANGED <<nTracks, currentIndex, boundSrc, pending, currentTime,
                 duration, volume, muted, playCount, lastPlay, lastWritten, lastResult,
                 wasMuted>>
  /\ UNCHANGED offstage

\* lines 75-83
OnSeek(v) ==
  /\ Idle
  /\ IF Falsy(duration)
       THEN currentTime' = currentTime
       ELSE LET percent == ClampPercent(v) IN
            IF percent = NaN
              THEN currentTime' = currentTime
              ELSE currentTime' = (Val(percent) * Val(duration)) \div 100
  /\ lastOp' = "onSeek"
  /\ lastArg' = Num(0)
  /\ UNCHANGED <<nTracks, currentIndex, boundSrc, pending, playing, duration,
                 volume, muted, playCount, lastPlay, lastWritten, lastResult, wasMuted>>
  /\ UNCHANGED offstage

\* platform: metadata of the bound source arrives (durationchange)
LoadedMetadata ==
  /\ Idle
  /\ boundSrc # NoSrc /\ Falsy(duration)
  /\ duration' \in Durations
  /\ lastOp' = "durationchange"
  /\ lastArg' = Num(0)
  /\ UNCHANGED <<nTracks, currentIndex, boundSrc, pending, playing, currentTime,
                 volume, muted, playCount, lastPlay, lastWritten, lastResult, wasMuted>>
  /\ UNCHANGED offstage

\* platform: playback advances (timeupdate)
TimeUpdate ==
  /\ Idle
  /\ playing /\ ~Falsy(duration) /\ currentTime < Val(duration)
  /\ currentTime' = currentTime + 50
  /\ lastOp' = "timeupdate"
  /\ lastArg' = Num(0)
  /\ UNCHANGED <<nTracks, currentIndex, boundSrc, pending, playing, duration,
                 volume, muted, playCount, lastPlay, lastWritten, lastResult, wasMuted>>
  /\ UNCHANGED offstage

Next ==
  \/ \E i \in IndexInputs, a \in BOOLEAN : SetTrack(i, a)
  \/ PlayNext
  \/ PlayPrev
  \/ Ended
  \/ Flush
  \/ SetTrackResume
  \/ TogglePlay
  \/ \E v \in SeekInputs : OnSeek(v)
  \/ LoadedMetadata
  \/ TimeUpdate

Spec == Init /\ [][Next]_vars

\* ------------------------------------------- calls made in the same task
\* a further call of setTrack / playNext made by the code that made the last
\* call, before any microtask has run: the earlier call is suspended at its await
SetTrackAgain(index, autoplay) ==
  /\ lastOp \in CallOps /\ pending # <<>>
  /\ SetTrackCall(index, autoplay, "setTrack")

PlayNextAgain ==
  /\ lastOp \in CallOps /\ pending # <<>>
  /\ SetTrackCall(currentIndex + 1, TRUE, "playNext")

NextOverlap ==
  \/ \E i \in IndexInputs, a \in BOOLEAN : SetTrack(i, a)
  \/ PlayNext
  \/ PlayPrev
  \/ Flush
  \/ SetTrackResume
  \/ \E i \in IndexInputs, a \in BOOLEAN : SetTrackAgain(i, a)
  \/ PlayNextAgain

SpecOverlap == Init /\ [][NextOverlap]_vars

\* ------------------------------------------------------------- the volume
VolumeInputs == {Num(v) : v \in (-1)..101} \cup {NaN}

\* lines 85-92
OnVolumeMuteSticky(v) ==
  LET percent == ClampPercent(v) IN
  IF percent = NaN
    THEN UNCHANGED <<volume, muted>>
    ELSE /\ volume' = Val(percent)
         /\ muted' = IF Val(percent) = 0 THEN TRUE ELSE muted
OnVolumeBody(v) ==
  LET percent == ClampPercent(v) IN
  IF percent = NaN
    THEN UNCHANGED <<volume, muted>>
    ELSE /\ volume' = Val(percent)
         /\ muted' = (Val(percent) = 0)

OnVolume(v) ==
  /\ Idle
  /\ OnVolumeBody(v)
  /\ wasMuted' = muted
  /\ lastOp' = "onVolume"
  /\ lastArg' = v
  /\ UNCHANGED <<nTracks, currentIndex, boundSrc, pending, playing, currentTime,
                 duration, playCount, lastPlay, lastWritten, lastResult>>
  /\ UNCHANGED offstage

\* lines 113-115; @click="setMuted(!muted)"
SetMuted(value) ==
  /\ Idle
  /\ muted' = value
  /\ wasMuted' = muted
  /\ lastOp' = "setMuted"
  /\ lastArg' = Num(0)
  /\ UNCHANGED <<nTracks, currentIndex, boundSrc, pending, playing, currentTime,
                 duration, volume, playCount, lastPlay, lastWritten, lastResult>>
  /\ UNCHANGED offstage

NextVolume ==
  \/ \E v \in VolumeInputs : OnVolume(v)
  \/ \E b \in BOOLEAN : SetMuted(b)

SpecVolume == Init /\ [][NextVolume]_vars

\* ---------------------------------------------------- the track catalog
\* Strings are sequences of characters.  File names are drawn over a letter,
\* the blank, the hyphen, the percent sign and the digit 2, with or without an
\* .mp3 extension in either case, below the directory the glob names.
StemChars == {"x", " ", "-", "%", "2"}
Stems == UNION {[1..k -> StemChars] : k \in 0..MaxStem}
Extensions == {<<>>, <<".", "m", "p", "3">>, <<".", "M", "P", "3">>}
AudioDir == <<".", "/">>
FileNames == {stem \o ext : stem \in Stems, ext \in Extensions} \ {<<>>}
AssetPaths == {AudioDir \o name : name \in FileNames}

\* path.split('/').pop()
RECURSIVE LastSegment(_)
LastSegment(path) ==
  IF \E k \in DOMAIN path : path[k] = "/"
    THEN LastSegment(Tail(path))
    ELSE path

\* decodeURIComponent: %22 is the one well-formed escape over these characters
\* (it decodes to the double quote); any other use of % throws URIError
RECURSIVE DecodeURIComponent(_)
DecodeURIComponent(str) ==
  IF str = <<>> THEN [ok |-> TRUE, value |-> <<>>]
  ELSE IF Head(str) # "%"
    THEN LET rest == DecodeURIComponent(Tail(str)) IN
         IF rest.ok THEN [ok |-> TRUE, value |-> <<Head(str)>> \o rest.value]
                    ELSE rest
  ELSE IF Len(str) >= 3 /\ str[2] = "2" /\ str[3] = "2"
    THEN LET rest == DecodeURIComponent(SubSeq(str, 4, Len(str))) IN
         IF rest.ok THEN [ok |-> TRUE, value |-> <<"\"">> \o rest.value]
                    ELSE rest
  ELSE [ok |-> FALSE, value |-> <<>>]

ToLower(c) == IF c = "M" THEN "m" ELSE IF c = "P" THEN "p" ELSE c

\* fileName.replace(/\.mp3$/i, '')
StripMp3(name) ==
  LET n == Len(name) IN
  IF n >= 4 /\ [k \in 1..4 |-> ToLower(name[n - 4 + k])] = <<".", "m", "p", "3">>
    THEN SubSeq(name, 1, n - 4)
    ELSE name

\* String.prototype.trim
RECURSIVE TrimStart(_)
TrimStart(str) == IF str # <<>> /\ Head(str) = " " THEN TrimStart(Tail(str)) ELSE str
RECURSIVE TrimEnd(_)
TrimEnd(str) ==
  IF str # <<>> /\ str[Len(str)] = " " THEN TrimEnd(SubSeq(str, 1, Len(str) - 1)) ELSE str
Trim(str) == TrimEnd(TrimStart(str))

\* cleanName.split(' - '): cut at every occurrence of the separator, left to right
Separator == <<" ", "-", " ">>
SeparatorAt(str) ==
  {k \in 1..(Len(str) - 2) : SubSeq(str, k, k + 2) = Separator}
RECURSIVE Split(_)
Split(str) ==
  IF SeparatorAt(str) = {}
    THEN <<str>>
    ELSE LET k == CHOOSE i \in SeparatorAt(str) : \A j \in SeparatorAt(str) : i <= j IN
         <<SubSeq(str, 1, k - 1)>> \o Split(SubSeq(str, k + 3, Len(str)))

UnknownArtist == <<"Unknown artist">>

\* a || b on strings: the empty string (and undefined) is falsy
OrElse(a, b) == IF a = <<>> THEN b ELSE a

\* lines 18-29: the Track of one [path, src] entry
TrackOf(path) ==
  LET decoded == DecodeURIComponent(LastSegment(path)) IN
  IF ~decoded.ok
    THEN [built |-> TRUE, threw |-> TRUE, fileName |-> <<>>, title |-> <<>>,
          subtitle |-> <<>>]
    ELSE LET fileName == decoded.value
             cleanName == StripMp3(fileName)
             parts == [k \in DOMAIN Split(cleanName) |-> Trim(Split(cleanName)[k])]
             artist == parts[1]
             title == IF Len(parts) >= 2 THEN parts[2] ELSE <<>>
         IN [built |-> TRUE, threw |-> FALSE, fileName |-> fileName,
             title |-> OrElse(title, cleanName),
             subtitle |-> OrElse(artist, UnknownArtist)]

InitTracks ==
  /\ nTracks = 0
  /\ InitPlayer
  /\ buffered = <<>>
  /\ rendered = NotRendered
  /\ assetPath \in AssetPaths
  /\ track = NoTrack

\* the map callback of `tracks` applied to the entry
BuildTrack ==
  /\ track = NoTrack
  /\ track' = TrackOf(assetPath)
  /\ UNCHANGED <<nTracks, currentIndex, boundSrc, pending, playing, currentTime,
                 duration, volume, muted, playCount, lastPlay, lastWritten, lastResult,
                 lastOp, lastArg, wasMuted, buffered, rendered, assetPath>>

NextTracks == BuildTrack

SpecTracks == InitTracks /\ [][NextTracks]_vars

\* ------------------------------------------------- progress and buffered
\* A quotient is kept exact, as <<numerator, denominator>> with denominator > 0.
Hundred == <<100, 1>>
Zero == <<0, 1>>
\* Math.min(100, q)
MinHundred(q) == IF q[1] >= 100 * q[2] THEN Hundred ELSE q

\* lines 47-51
ProgressOf(time, dur) ==
  IF Falsy(dur) THEN Zero ELSE MinHundred(<<time * 100, Val(dur)>>)

\* lines 53-58
BufferedPercentOf(ranges, dur) ==
  IF Falsy(dur) \/ Len(ranges) = 0
    THEN Zero
    ELSE MinHundred(<<ranges[Len(ranges)][2] * 100, Val(dur)>>)

progress == ProgressOf(currentTime, duration)
bufferedPercent == BufferedPercentOf(buffered, duration)

TimeInputs == (-2)..MaxTime
DurationInputs == {Num(d) : d \in 0..MaxTime} \cup {NaN}
Ranges == {<<a, b>> : a \in 0..MaxTime, b \in 0..MaxTime}
BufferedInputs == {<<>>} \cup {<<r>> : r \in {q \in Ranges : q[1] <= q[2]}}

InitProgress ==
  /\ nTracks = 1
  /\ currentIndex = 0 /\ boundSrc = SrcOfIndex(0) /\ pending = <<>>
  /\ playing \in BOOLEAN
  /\ currentTime \in TimeInputs
  /\ duration \in DurationInputs
  /\ buffered \in BufferedInputs
  /\ volume = 100 /\ muted = FALSE /\ playCount = 0 /\ lastPlay = NoPlay
  /\ lastWritten = 0 /\ lastResult = "none" /\ lastOp = "mount" /\ lastArg = Num(0)
  /\ wasMuted = FALSE
  /\ rendered = NotRendered
  /\ assetPath = <<>>
  /\ track = NoTrack

\* the template's :style="{ width: `${progress}%` }" and `${bufferedPercent}%`
RenderBars ==
  /\ rendered = NotRendered
  /\ rendered' = [done |-> TRUE, progress |-> progress, buffered |-> bufferedPercent]
  /\ UNCHANGED <<nTracks, currentIndex, boundSrc, pending, playing, currentTime,
                 duration, volume, muted, playCount, lastPlay, lastWritten, lastResult,
                 lastOp, lastArg, wasMuted, buffered, assetPath, track>>

NextProgress == RenderBars

SpecProgress == InitProgress /\ [][NextProgress]_vars

\* ======================================================= claims: the player
TransportOps == {"togglePlay", "setTrack", "playNext", "playPrev", "onSeek"}

\* C1 (as claimed): on a non-empty catalog currentIndex is always a valid index and
\* the bound track currentTrack is tracks[currentIndex]; on an empty catalog
\* there is no bound track.
C1_IndexValidAndBound ==
  IF nTracks >= 1
    THEN /\ currentIndex \in 0..(nTracks - 1)
         /\ currentTrack = tracks[currentIndex]
    ELSE currentTrack = Undefined /\ src = NoSrc

\* C2 (as claimed): for every integer i, setTrack(i) on a catalog of length
\* n >= 1 leaves currentIndex at the non-negative remainder i mod n.
C2_SetTrackSelectsIndexModN ==
  (lastOp = "setTrack" /\ nTracks >= 1) => currentIndex = Val(lastArg) % nTracks

\* C4: the end of media at index i calls playNext: currentIndex becomes
\* (i + 1) mod n and the call is suspended with autoplay requested, its
\* continuation issues the play request; and currentIndex changes in no step
\* other than a call of setTrack / playNext / playPrev or the end of media.
C4_EndedPlaysNext ==
  /\ [][lastOp' = "ended" =>
          /\ nTracks >= 1
          /\ currentIndex' = (currentIndex + 1) % nTracks
          /\ pending'[Len(pending')] = ResumeJob((currentIndex + 1) % nTracks, TRUE)]_vars
  /\ [][(lastOp' \in ResumeOps /\ Head(pending).autoplay) =>
          /\ playCount' = playCount + 1
          /\ lastPlay'.index = Head(pending).index]_vars
  /\ [][currentIndex' # currentIndex => lastOp' \in CallOps]_vars

\* the last track has ended and the player wrapped to the first one
C4_Witness ==
  /\ nTracks = MaxTracks /\ lastOp = "ended"
  /\ Val(lastArg) = nTracks /\ currentIndex = 0

\* C5: a call of setTrack with autoplay issues its play request only after its
\* write of currentIndex and after the element was bound to the source of the
\* selected track, never against the source bound before; a call without
\* autoplay issues no play request.
C5_PlayAfterRebind ==
  /\ [][playCount' # playCount =>
          /\ lastOp' \in ResumeOps
          /\ Head(pending).autoplay
          /\ currentIndex = Head(pending).index
          /\ boundSrc = SrcOfIndex(Head(pending).index)
          /\ lastPlay' = [src |-> SrcOfIndex(Head(pending).index),
                          index |-> Head(pending).index]]_vars
  /\ [][(lastOp' \in ResumeOps /\ ~Head(pending).autoplay) =>
          /\ lastOp' = "noPlay"
          /\ UNCHANGED <<playCount, lastPlay>>]_vars

\* a play request went to a source that was bound by the call that issued it
C5_Witness ==
  /\ lastOp = "playResolved" /\ playCount = 1
  /\ lastPlay.index = 2 /\ lastPlay.src = Track(2).src /\ boundSrc = Track(2).src

\* C6 (as claimed): every play request issued after the later call's write goes
\* to the later call's source.
C6_PlaysTargetLatestWrite ==
  [][playCount' # playCount => lastPlay'.src = SrcOfIndex(lastWritten)]_vars

\* C6 (amended): once the calls have completed currentIndex and the bound source
\* are those of the last call; every play request issued once no render is
\* queued goes to the last call's source; no continuation writes currentIndex.
C6_SupersededByLatest ==
  /\ [](pending = <<>> =>
          /\ currentIndex = lastWritten
          /\ boundSrc = SrcOfIndex(lastWritten))
  /\ [][(playCount' # playCount /\ ~dirty) =>
          lastPlay'.src = SrcOfIndex(lastWritten)]_vars
  /\ [][lastOp' \in ResumeOps => currentIndex' = currentIndex]_vars

\* a call for one track resumed while a later call for another track was
\* suspended, and its play request went to the later call's source
C6_Witness ==
  /\ lastOp \in ResumeOps /\ Cardinality(Suspended) = 1 /\ ~dirty
  /\ lastPlay.index # currentIndex
  /\ lastPlay.src = SrcOfIndex(currentIndex)
  /\ lastPlay.src # SrcOfIndex(lastPlay.index)

\* C7: on an empty catalog every transport control leaves currentIndex, playing
\* and currentTime as they are, queues nothing, issues no play request and
\* settles no promise with an error.
C7_EmptyCatalogNoOp ==
  /\ [](nTracks = 0 =>
          /\ currentIndex = 0 /\ ~playing /\ currentTime = 0
          /\ playCount = 0 /\ pending = <<>> /\ lastResult = "none")
  /\ [][(nTracks = 0 /\ lastOp' \in TransportOps) =>
          UNCHANGED <<currentIndex, playing, currentTime, duration, boundSrc,
                      pending, playCount, lastPlay, lastResult>>]_vars

C7_Witness == nTracks = 0 /\ lastOp = "togglePlay"

\* C8 (as claimed): when the platform rejects the play request of setTrack the
\* failure does not leave the operation as an error, playing is false,
\* currentIndex is the selected track and nothing further is queued.
C8_RejectionSwallowed ==
  lastOp = "playRejected" =>
    /\ lastResult # "rejected"
    /\ ~playing
    /\ currentIndex = lastPlay.index
    /\ pending = <<>>

\* ======================================================= claims: the volume
\* C3 (as claimed): muted, once set, is cleared only by setMuted.
C3_MutedClearedOnlyBySetMuted ==
  [][(muted /\ ~muted') => lastOp' = "setMuted"]_vars

\* C3 (amended): every accepted onVolume stores the clamped value and sets
\* muted to (value = 0), so a positive value clears muted; muted changes in no
\* step other than onVolume and setMuted, and setMuted leaves the volume alone.
C3_OnVolumeSetsMuted ==
  /\ [][(lastOp' = "onVolume" /\ lastArg' # NaN) =>
          /\ volume' = Val(ClampPercent(lastArg'))
          /\ muted' = (volume' = 0)]_vars
  /\ [][muted' # muted => lastOp' \in {"onVolume", "setMuted"}]_vars
  /\ [][lastOp' = "setMuted" => volume' = volume]_vars

\* the volume control was at 0 (muted) and was then moved to 50
C3_Witness ==
  lastOp = "onVolume" /\ wasMuted /\ lastArg = Num(50) /\ volume = 50 /\ ~muted

\* ====================================================== claims: the catalog
\* C9 (as claimed): the Track derived from any asset path has a non-empty title
\* and a non-empty subtitle.
C9_TitleAndSubtitleNonEmpty ==
  (track.built /\ ~track.threw) => (track.title # <<>> /\ track.subtitle # <<>>)

\* ===================================================== claims: the progress
InPercentRange(q) == q[1] >= 0 /\ q[1] <= 100 * q[2]

\* C10 (as claimed): for every currentTime and duration, progress lies in
\* [0, 100] and is 0 when the duration is 0 or unknown; bufferedPercent lies in
\* [0, 100] for any buffered ranges.
C10_PercentagesInRange ==
  rendered.done =>
    /\ InPercentRange(rendered.progress)
    /\ InPercentRange(rendered.buffered)
    /\ (Falsy(duration) => rendered.progress = Zero)

====
